---- MODULE Spec2Model ----
(***************************************************************************)
(* Model of app2.py, the Streamlit compound lookup script: the WHERE       *)
(* clause built by search_compounds, the IN query of batch_search_cas, the *)
(* batch reconciliation of the script body, the dispatch between the two   *)
(* query paths, and display_image.                                         *)
(*                                                                         *)
(* Text is a sequence of one-character strings.  One script run (one       *)
(* Streamlit interaction) goes  ready -> dispatched -> table_shown ->      *)
(* detail_shown -> ready.                                                  *)
(***************************************************************************)
EXTENDS Integers, Sequences, FiniteSets, TLC

\* ------------------------------------------------------------------ bounds
\* Largest number of rows of the compounds table.
MaxRows == 2
\* Largest number of lines of an uploaded file.
MaxLines == 2

\* ------------------------------------------------------------ text values
\* SQL NULL in a text column (no text value is equal to it).
NULL == <<"NULL">>

\* Characters str.strip() removes (space, line feed, ideographic space).
StrWhitespace == {"SP", "LF", "U3000"}
\* Characters bytes.strip() removes: ASCII whitespace only.
BytesWhitespace == {"SP", "LF"}

RECURSIVE LStrip(_, _)
LStrip(s, ws) ==
    IF s # <<>> /\ Head(s) \in ws THEN LStrip(Tail(s), ws) ELSE s

RECURSIVE RStrip(_, _)
RStrip(s, ws) ==
    IF s # <<>> /\ s[Len(s)] \in ws THEN RStrip(SubSeq(s, 1, Len(s) - 1), ws) ELSE s

\* str.strip() / bytes.strip(), by the set of characters it removes.
Strip(s, ws) == RStrip(LStrip(s, ws), ws)

\* line.decode("utf-8") raises UnicodeDecodeError on an invalid byte.
DecodeRaises(line) == \E i \in 1..Len(line) : line[i] = "xFF"

\* SQLite LIKE folds ASCII case.
Fold(c) == IF c = "A" THEN "a" ELSE c

\* SQLite's LIKE: % matches any run of characters, _ any one character,
\* any other character itself up to ASCII case.
RECURSIVE LikeMatch(_, _)
LikeMatch(p, t) ==
    IF p = <<>> THEN t = <<>>
    ELSE IF Head(p) = "%"
         THEN LikeMatch(Tail(p), t) \/ (t # <<>> /\ LikeMatch(p, Tail(t)))
         ELSE /\ t # <<>>
              /\ (Head(p) = "_" \/ Fold(Head(p)) = Fold(Head(t)))
              /\ LikeMatch(Tail(p), Tail(t))

\* column LIKE pattern, as a WHERE condition: NULL LIKE x is NULL, not true.
SqlLike(col, pattern) == col # NULL /\ LikeMatch(pattern, col)

\* ------------------------------------------------------------- the table
\* The text columns of the compounds the table may hold.
Compounds == <<
    [cas_number |-> <<"6", "4">>, compound_name_cn |-> <<"a">>,
     category |-> <<"b">>, compound_name_en |-> <<"a", "b">>],
    [cas_number |-> <<"A">>, compound_name_cn |-> NULL,
     category |-> <<"%">>, compound_name_en |-> <<"a">>],
    [cas_number |-> <<"6", "a">>, compound_name_cn |-> <<"A">>,
     category |-> NULL, compound_name_en |-> NULL] >>

\* has_aroma column: <<>> is NULL, <<0>> and <<1>> the stored integers.
AromaValues == {<<>>, <<0>>, <<1>>}

MkRow(c, a) ==
    [cas_number |-> c.cas_number, compound_name_cn |-> c.compound_name_cn,
     category |-> c.category, compound_name_en |-> c.compound_name_en,
     has_aroma |-> a]

Rows == {MkRow(Compounds[i], a) : i \in DOMAIN Compounds, a \in AromaValues}

Rank(r) == CHOOSE i \in DOMAIN Compounds : Compounds[i].cas_number = r.cas_number

\* Tables of at most MaxRows rows, the identifier being a unique key.
Tables ==
    UNION { { t \in [1..n -> Rows] :
                \A i \in 1..n, j \in 1..n : i < j => Rank(t[i]) < Rank(t[j]) }
            : n \in 0..MaxRows }

\* ------------------------------------------------------------ SQL text
SELECT_WHERE == "SELECT * FROM compounds WHERE 1=1"
SELECT_IN == "SELECT * FROM compounds WHERE cas_number IN ("
PLACEHOLDER == "?"
LIKE_CAS == " AND cas_number LIKE "
LIKE_CN == " AND compound_name_cn LIKE "
LIKE_CATEGORY == " AND category LIKE "
LIKE_EN == " AND compound_name_en LIKE "
AROMA_IS_TRUE == " AND has_aroma = 1"
AROMA_IS_FALSE == " AND (has_aroma IS NULL OR has_aroma = 0)"

\* The three values of the aroma selectbox: "", "带香气", "不带香气".
AROMA_ANY == "any"
AROMA_YES == "with_aroma"
AROMA_NO == "without_aroma"
AromaChoices == {AROMA_ANY, AROMA_YES, AROMA_NO}

\* f"%{value}%"
Wrap(v) == <<"%">> \o v \o <<"%">>

LikePart(head, v) ==
    IF v # <<>> THEN [q |-> <<head, PLACEHOLDER>>, p |-> <<Wrap(v)>>]
                ELSE [q |-> <<>>, p |-> <<>>]

\* AromaPart without its elif branch.
AromaPartNoElif(a) ==
    IF a = AROMA_YES THEN <<AROMA_IS_TRUE>> ELSE <<>>

AromaPart(a) ==
    IF a = AROMA_YES THEN <<AROMA_IS_TRUE>>
    ELSE IF a = AROMA_NO THEN <<AROMA_IS_FALSE>>
    ELSE <<>>

\* The query text and the parameter list search_compounds builds.
SearchQuery(f) ==
    LET c1 == LikePart(LIKE_CAS, f.cas_number)
        c2 == LikePart(LIKE_CN, f.compound_name_cn)
        c3 == LikePart(LIKE_CATEGORY, f.category)
        c4 == LikePart(LIKE_EN, f.compound_name_en)
    IN  [query |-> <<SELECT_WHERE>> \o c1.q \o c2.q \o c3.q \o c4.q \o AromaPart(f.has_aroma),
         params |-> c1.p \o c2.p \o c3.p \o c4.p]

\* ','.join(['?'] * n)
RECURSIVE Placeholders(_)
Placeholders(n) ==
    IF n = 0 THEN <<>>
    ELSE IF n = 1 THEN <<PLACEHOLDER>>
    ELSE <<PLACEHOLDER, ",">> \o Placeholders(n - 1)

RECURSIVE Flatten(_)
Flatten(ss) == IF ss = <<>> THEN <<>> ELSE Head(ss) \o <<",">> \o Flatten(Tail(ss))

\* BatchQuery with the identifiers written into the text.
BatchQueryInterpolated(cas_list) ==
    [query |-> <<SELECT_IN>> \o Flatten(cas_list) \o <<")">>, params |-> <<>>]

\* The query text and the parameter list batch_search_cas builds.
BatchQuery(cas_list) ==
    [query |-> <<SELECT_IN>> \o Placeholders(Len(cas_list)) \o <<")">>,
     params |-> cas_list]

\* Number of ? placeholders of a query text.
CountPlaceholders(query) == Cardinality({i \in DOMAIN query : query[i] = PLACEHOLDER})

\* ------------------------------------------------------- query execution
LikeHeads == {LIKE_CAS, LIKE_CN, LIKE_CATEGORY, LIKE_EN}

ColumnOf(head, row) ==
    IF head = LIKE_CAS THEN row.cas_number
    ELSE IF head = LIKE_CN THEN row.compound_name_cn
    ELSE IF head = LIKE_CATEGORY THEN row.category
    ELSE row.compound_name_en

\* The conjunction after WHERE 1=1, evaluated on one row with the bound
\* parameters taken in order.
RECURSIVE WhereHolds(_, _, _)
WhereHolds(conds, params, row) ==
    IF conds = <<>> THEN TRUE
    ELSE IF Head(conds) \in LikeHeads
         THEN /\ SqlLike(ColumnOf(Head(conds), row), Head(params))
              /\ WhereHolds(Tail(Tail(conds)), Tail(params), row)
    ELSE IF Head(conds) = AROMA_IS_TRUE
         THEN row.has_aroma = <<1>> /\ WhereHolds(Tail(conds), params, row)
    ELSE IF Head(conds) = AROMA_IS_FALSE
         THEN /\ (row.has_aroma = <<>> \/ row.has_aroma = <<0>>)
              /\ WhereHolds(Tail(conds), params, row)
    ELSE FALSE

\* SqlIn under a collation that folds case.
SqlInNoCase(col, params) ==
    /\ col # NULL
    /\ \E i \in DOMAIN params :
          /\ Len(params[i]) = Len(col)
          /\ \A j \in DOMAIN col : Fold(params[i][j]) = Fold(col[j])

\* cas_number IN (?, ..., ?): equality under the BINARY collation, which
\* compares text byte for byte.
SqlIn(col, params) == col # NULL /\ \E i \in DOMAIN params : params[i] = col

RowSelected(query, params, row) ==
    IF Head(query) = SELECT_WHERE THEN WhereHolds(Tail(query), params, row)
    ELSE SqlIn(row.cas_number, params)

\* pd.read_sql_query(query, conn, params=params) on table tbl.  It raises
\* when the datastore fails (db) and when the number of bindings supplied is
\* not the number of placeholders (sqlite3.ProgrammingError).
ReadSqlQuery(query, params, tbl, db) ==
    IF db = "query_fails" \/ CountPlaceholders(query) # Len(params)
    THEN [raised |-> TRUE, rows |-> <<>>]
    ELSE [raised |-> FALSE,
          rows |-> SelectSeq(tbl, LAMBDA r : RowSelected(query, params, r))]

\* What one call of a query function did: whether it raised, the frame it
\* returned, the statements it handed to the datastore, and the connections
\* it opened and closed.
CallResult(raised, frame, stmts, nOpened, nClosed) ==
    [raised |-> raised, df |-> frame, issued |-> stmts,
     opened |-> nOpened, closed |-> nClosed]

\* The outcomes the datastore can have during one call.
DbOutcomes == {"ok", "connect_fails", "query_fails"}

search_compounds(f, tbl, db) ==
    IF db = "connect_fails" THEN CallResult(TRUE, <<>>, <<>>, 0, 0)
    ELSE LET sq == SearchQuery(f)
             res == ReadSqlQuery(sq.query, sq.params, tbl, db)
         IN  IF res.raised THEN CallResult(TRUE, <<>>, <<sq>>, 1, 0)
             ELSE CallResult(FALSE, res.rows, <<sq>>, 1, 1)

batch_search_cas(cas_list, tbl, db) ==
    IF cas_list = <<>> THEN CallResult(FALSE, <<>>, <<>>, 0, 0)
    ELSE IF db = "connect_fails" THEN CallResult(TRUE, <<>>, <<>>, 0, 0)
    ELSE LET bq == BatchQuery(cas_list)
             res == ReadSqlQuery(bq.query, bq.params, tbl, db)
         IN  IF res.raised THEN CallResult(TRUE, <<>>, <<bq>>, 1, 0)
             ELSE CallResult(FALSE, res.rows, <<bq>>, 1, 1)

\* ------------------------------------------------------------- notices
\* st.success / st.warning / st.error / st.info / st.image calls.
Notice(kind, text, arg) == [kind |-> kind, text |-> text, arg |-> arg]

\* "文件为空"
FILE_EMPTY == "file_empty"
\* "批量查询失败: ..."
BATCH_FAILED == "batch_failed"
\* "批量查询完成：n/m 个匹配"
BATCH_DONE == "batch_done"
\* "未找到的 CAS: ..."
CAS_NOT_FOUND == "cas_not_found"
\* "未找到匹配的记录。"
NO_MATCH == "no_match"
\* "图片不存在: <cas>.png"
IMAGE_MISSING == "image_missing"
\* "图片加载失败: ..."
IMAGE_FAILED == "image_failed"
\* "结构图: <cas>.png"
IMAGE_SHOWN == "image_shown"

\* The states the file img/<cas>.png can be in.
ImageStates == {"absent", "ok", "unreadable"}

\* display_image without its try / except.
display_image_unguarded(cas, img) ==
    IF img # "absent"
    THEN IF img = "ok"
         THEN [raised |-> FALSE, out |-> <<[kind |-> "image", text |-> "image_shown", arg |-> cas]>>]
         ELSE [raised |-> TRUE, out |-> <<>>]
    ELSE [raised |-> FALSE, out |-> <<[kind |-> "info", text |-> "image_missing", arg |-> cas]>>]

\* display_image(cas): whether it raised and what it put on the page.
display_image(cas, img) ==
    IF img # "absent"
    THEN IF img = "ok"
         THEN [raised |-> FALSE, out |-> <<Notice("image", IMAGE_SHOWN, cas)>>]
         ELSE [raised |-> FALSE, out |-> <<Notice("error", IMAGE_FAILED, cas)>>]
    ELSE [raised |-> FALSE, out |-> <<Notice("info", IMAGE_MISSING, cas)>>]

\* ------------------------------------------------------- batch file input
\* Lines of an uploaded file: an identifier, a padded identifier in another
\* case, an unknown identifier, a blank line, a line holding only an
\* ideographic space, and a line with a byte that is not UTF-8.
Lines == { <<"6", "4", "LF">>, <<"SP", "a", "LF">>, <<"9", "LF">>,
           <<"LF">>, <<"U3000", "LF">>, <<"xFF", "LF">> }

Files == UNION { [1..n -> Lines] : n \in 0..MaxLines }

\* uploaded_file is None
NoFile == << <<"None">> >>

\* The lines the first comprehension keeps: if line.strip()
KeptLines(file) == SelectSeq(file, LAMBDA l : Strip(l, BytesWhitespace) # <<>>)

\* ParseCasList without the second comprehension (line 156).
ParseCasListSingleFilter(file) ==
    LET kept == KeptLines(file)
    IN  IF \E i \in DOMAIN kept : DecodeRaises(kept[i])
        THEN [raised |-> TRUE, cas_list |-> <<>>]
        ELSE [raised |-> FALSE,
              cas_list |-> [i \in DOMAIN kept |-> Strip(kept[i], StrWhitespace)]]

\* Lines 155-156: the trimmed identifiers; raises when a kept line does not
\* decode.
ParseCasList(file) ==
    LET kept == KeptLines(file)
    IN  IF \E i \in DOMAIN kept : DecodeRaises(kept[i])
        THEN [raised |-> TRUE, cas_list |-> <<>>]
        ELSE [raised |-> FALSE,
              cas_list |-> SelectSeq([i \in DOMAIN kept |-> Strip(kept[i], StrWhitespace)],
                                     LAMBDA c : c # <<>>)]

\* set(df["cas_number"].tolist())
FoundCas(frame) == {frame[i].cas_number : i \in DOMAIN frame}

\* Missing that reports each absent identifier once.
MissingDeduplicated(cas_list, found) ==
    LET miss == SelectSeq(cas_list, LAMBDA c : c \notin found)
        firsts == {i \in DOMAIN miss : \A j \in 1..(i - 1) : miss[j] # miss[i]}
        F[i \in 0..Len(miss)] ==
            IF i = 0 THEN <<>>
            ELSE IF i \in firsts THEN Append(F[i - 1], miss[i]) ELSE F[i - 1]
    IN  F[Len(miss)]

\* [c for c in cas_list if c not in found_cas]
Missing(cas_list, found) == SelectSeq(cas_list, LAMBDA c : c \notin found)

\* ------------------------------------------------------------ form input
CasFilters == {<<>>, <<"4">>, <<"6", "_">>}
CnFilters == {<<>>, <<"a">>}
CategoryFilters == {<<>>, <<"%">>}
EnFilters == {<<>>, <<"b">>}

\* The values of the five filter widgets (lines 130-136).
Forms ==
    [cas_number : CasFilters, compound_name_cn : CnFilters,
     category : CategoryFilters, compound_name_en : EnFilters,
     has_aroma : AromaChoices]

EmptyForm ==
    [cas_number |-> <<>>, compound_name_cn |-> <<>>, category |-> <<>>,
     compound_name_en |-> <<>>, has_aroma |-> AROMA_ANY]

\* Widget values of the runs that do not read them.
UnreadForms == {EmptyForm, [EmptyForm EXCEPT !.cas_number = <<"4">>]}

\* ------------------------------------------------------------------ state
VARIABLES
    table,          \* the compounds table of compounds.db (read only)
    pc,             \* position of the script run
    form,           \* cas_number, compound_name_cn, category, compound_name_en, has_aroma
    do_search,      \* the search button
    do_clear,       \* the clear button
    uploaded_file,  \* the uploaded file, or NoFile
    cas_list,       \* identifiers parsed from the file
    found_cas,      \* set of identifiers the batch query returned
    missing,        \* identifiers of cas_list not in found_cas
    df,             \* the result frame
    notices,        \* what the script put on the page, in order
    calls,          \* query functions called in this run, in order
    issued,         \* statements handed to the datastore in this run
    opened,         \* connections opened in this run
    closed,         \* connections closed in this run
    db,             \* what the datastore did in this run ("none": not used)
    run,            \* "running", "completed", "exception" or "rerun"
    selected_cas,   \* the row picked in the detail selectbox
    image           \* state of the picked row's image file ("none": not read)

vars == <<table, pc, form, do_search, do_clear, uploaded_file, cas_list,
          found_cas, missing, df, notices, calls, issued, opened, closed, db,
          run, selected_cas, image>>

Init ==
    /\ table \in Tables
    /\ pc = "ready"
    /\ form = EmptyForm
    /\ do_search = FALSE
    /\ do_clear = FALSE
    /\ uploaded_file = NoFile
    /\ cas_list = <<>>
    /\ found_cas = {}
    /\ missing = <<>>
    /\ df = <<>>
    /\ notices = <<>>
    /\ calls = <<>>
    /\ issued = <<>>
    /\ opened = 0
    /\ closed = 0
    /\ db = "none"
    /\ run = "running"
    /\ selected_cas = <<>>
    /\ image = "none"

\* ---------------------------------------------------------------- actions
\* Lines 148-150: the clear button; st.rerun() stops the run.
ClearRun ==
    /\ pc = "ready"
    /\ \E f \in UnreadForms, file \in {NoFile, <<>>} :
          /\ form' = f
          /\ uploaded_file' = file
    /\ do_clear' = TRUE
    /\ do_search' = FALSE
    /\ run' = "rerun"
    /\ pc' = "dispatched"
    /\ UNCHANGED <<table, cas_list, found_cas, missing, df, notices, calls,
                   issued, opened, closed, db, selected_cas, image>>

\* Every value uploaded_file can have.
Uploads == Files \cup {NoFile}

\* Branch with the search button tested first.
BranchSearchFirst(file, pressed) ==
    IF pressed THEN "search"
    ELSE IF file # NoFile THEN "batch"
    ELSE "none"

\* The branch the if / elif / else of lines 153, 171 and 180 takes.
Branch(file, pressed) ==
    IF file # NoFile THEN "batch"
    ELSE IF pressed THEN "search"
    ELSE "none"

\* The outcome of lines 153-170 for an uploaded file.
BatchBlock(file, tbl, d) ==
    LET parsed == ParseCasList(file)
        list == parsed.cas_list
        r == batch_search_cas(list, tbl, d)
        found == FoundCas(r.df)
        miss == Missing(list, found)
        none == [cas_list |-> <<>>, found_cas |-> {}, missing |-> <<>>, df |-> <<>>,
                 calls |-> <<>>, issued |-> <<>>, opened |-> 0, closed |-> 0,
                 db |-> "none", notices |-> <<>>]
    IN  IF parsed.raised
        THEN [none EXCEPT !.notices = <<Notice("error", BATCH_FAILED, <<>>)>>]
        ELSE IF list # <<>>
        THEN IF r.raised
             THEN [none EXCEPT !.cas_list = list,
                               !.calls = <<"batch_search_cas">>,
                               !.issued = r.issued,
                               !.opened = r.opened,
                               !.closed = r.closed,
                               !.db = d,
                               !.notices = <<Notice("error", BATCH_FAILED, <<>>)>>]
             ELSE [cas_list |-> list, found_cas |-> found, missing |-> miss,
                   df |-> r.df, calls |-> <<"batch_search_cas">>,
                   issued |-> r.issued, opened |-> r.opened, closed |-> r.closed,
                   db |-> d,
                   notices |->
                       <<Notice("success", BATCH_DONE,
                                <<Cardinality(found), Len(list)>>)>>
                       \o (IF miss # <<>>
                           THEN <<Notice("warning", CAS_NOT_FOUND, miss)>>
                           ELSE <<>>)]
        ELSE [none EXCEPT !.notices = <<Notice("warning", FILE_EMPTY, <<>>)>>]

\* Lines 153-170: a file is uploaded.
BatchRun ==
    /\ pc = "ready"
    /\ \E file \in Uploads, pressed \in BOOLEAN, f \in UnreadForms, d \in DbOutcomes :
          LET b == BatchBlock(file, table, d)
          IN  /\ Branch(file, pressed) = "batch"
              /\ uploaded_file' = file
              /\ do_search' = pressed
              /\ form' = f
              /\ cas_list' = b.cas_list
              /\ found_cas' = b.found_cas
              /\ missing' = b.missing
              /\ df' = b.df
              /\ calls' = b.calls
              /\ issued' = b.issued
              /\ opened' = b.opened
              /\ closed' = b.closed
              /\ db' = b.db
              /\ notices' = b.notices
    /\ do_clear' = FALSE
    /\ run' = "completed"
    /\ pc' = "dispatched"
    /\ UNCHANGED <<table, selected_cas, image>>

\* Lines 171-179: no file, the search button pressed.  An exception of
\* search_compounds leaves the script: the run ends there.
SearchRun ==
    /\ pc = "ready"
    /\ \E file \in Uploads, pressed \in BOOLEAN, f \in Forms, d \in DbOutcomes :
          LET r == search_compounds(f, table, d)
          IN  /\ Branch(file, pressed) = "search"
              /\ uploaded_file' = file
              /\ do_search' = pressed
              /\ form' = f
              /\ df' = r.df
              /\ issued' = r.issued
              /\ opened' = r.opened
              /\ closed' = r.closed
              /\ db' = d
              /\ run' = IF r.raised THEN "exception" ELSE "completed"
    /\ calls' = <<"search_compounds">>
    /\ do_clear' = FALSE
    /\ pc' = "dispatched"
    /\ UNCHANGED <<table, cas_list, found_cas, missing, notices, selected_cas, image>>

\* Lines 180-181: neither a file nor the search button.
IdleRun ==
    /\ pc = "ready"
    /\ \E file \in Uploads, pressed \in BOOLEAN, f \in UnreadForms :
          /\ Branch(file, pressed) = "none"
          /\ uploaded_file' = file
          /\ do_search' = pressed
          /\ form' = f
    /\ do_clear' = FALSE
    /\ run' = "completed"
    /\ pc' = "dispatched"
    /\ UNCHANGED <<table, cas_list, found_cas, missing, df, notices, calls,
                   issued, opened, closed, db, selected_cas, image>>

\* "是" if x == 1 else "否"
AromaDisplay(a) == IF a = <<1>> THEN "yes" ELSE "no"

WithDisplay(r) ==
    [cas_number |-> r.cas_number, compound_name_cn |-> r.compound_name_cn,
     category |-> r.category, compound_name_en |-> r.compound_name_en,
     has_aroma |-> r.has_aroma, has_aroma_display |-> AromaDisplay(r.has_aroma)]

\* Lines 184-215 and 224-226: the result table and the detail selectbox, or
\* the "no match" note.
ShowTable ==
    /\ pc = "dispatched"
    /\ run = "completed"
    /\ IF df # <<>>
       THEN /\ df' = [i \in DOMAIN df |-> WithDisplay(df[i])]
            /\ \E i \in DOMAIN df : selected_cas' = df[i].cas_number
            /\ UNCHANGED notices
       ELSE /\ notices' = IF do_search \/ uploaded_file # NoFile
                          THEN Append(notices, Notice("info", NO_MATCH, <<>>))
                          ELSE notices
            /\ UNCHANGED <<df, selected_cas>>
    /\ pc' = "table_shown"
    /\ UNCHANGED <<table, form, do_search, do_clear, uploaded_file, cas_list,
                   found_cas, missing, calls, issued, opened, closed, db, run, image>>

\* Lines 216-222: display_image for the picked row, then show_detail_modal,
\* which calls display_image again (line 116).
ShowDetail ==
    /\ pc = "table_shown"
    /\ selected_cas # <<>>
    /\ \E img \in ImageStates :
          LET first == display_image(selected_cas, img)
              second == display_image(selected_cas, img)
          IN  /\ image' = img
              /\ IF first.raised
                 THEN /\ notices' = notices
                      /\ run' = "exception"
                 ELSE /\ notices' = notices \o first.out \o second.out
                      /\ run' = IF second.raised THEN "exception" ELSE run
    /\ pc' = "detail_shown"
    /\ UNCHANGED <<table, form, do_search, do_clear, uploaded_file, cas_list,
                   found_cas, missing, df, calls, issued, opened, closed, db,
                   selected_cas>>

\* The run is over; the next interaction runs the script from the top.
NextInteraction ==
    /\ \/ pc = "dispatched" /\ run # "completed"
       \/ pc = "table_shown" /\ selected_cas = <<>>
       \/ pc = "detail_shown"
    /\ pc' = "ready"
    /\ form' = EmptyForm
    /\ do_search' = FALSE
    /\ do_clear' = FALSE
    /\ uploaded_file' = NoFile
    /\ cas_list' = <<>>
    /\ found_cas' = {}
    /\ missing' = <<>>
    /\ df' = <<>>
    /\ notices' = <<>>
    /\ calls' = <<>>
    /\ issued' = <<>>
    /\ opened' = 0
    /\ closed' = 0
    /\ db' = "none"
    /\ run' = "running"
    /\ selected_cas' = <<>>
    /\ image' = "none"
    /\ UNCHANGED table

Next ==
    \/ ClearRun
    \/ BatchRun
    \/ SearchRun
    \/ IdleRun
    \/ ShowTable
    \/ ShowDetail
    \/ NextInteraction

Spec == Init /\ [][Next]_vars

\* ============================================================ properties
Range(s) == {s[i] : i \in DOMAIN s}

InFrame(r, frame) == \E i \in DOMAIN frame : frame[i] = r

\* v occurs in col as a run of consecutive characters, letters compared as
\* the datastore's LIKE compares them (ASCII case folded).
Contains(col, v) ==
    /\ col # NULL
    /\ \E k \in 0..(Len(col) - Len(v)) :
          \A j \in 1..Len(v) : Fold(col[k + j]) = Fold(v[j])

Count(c, s) == Cardinality({i \in DOMAIN s : s[i] = c})

RECURSIVE IsSubsequence(_, _)
IsSubsequence(a, b) ==
    IF a = <<>> THEN TRUE
    ELSE IF b = <<>> THEN FALSE
    ELSE IF Head(a) = Head(b) THEN IsSubsequence(Tail(a), Tail(b))
    ELSE IsSubsequence(a, Tail(b))

\* The table holds a row whose identifier is exactly c.
Stored(c) == \E i \in DOMAIN table : table[i].cas_number = c

\* search_compounds has returned and the script has not yet touched df.
SearchDone == pc = "dispatched" /\ calls = <<"search_compounds">> /\ run = "completed"

\* batch_search_cas has returned a frame in this run.
BatchDone == pc # "ready" /\ calls = <<"batch_search_cas">> /\ db = "ok"

TextColumns == {"cas_number", "compound_name_cn", "category", "compound_name_en"}

AromaAccepts(choice, a) ==
    IF choice = AROMA_YES THEN a = <<1>>
    ELSE IF choice = AROMA_NO THEN a \in {<<>>, <<0>>}
    ELSE TRUE

\* C1: after search_compounds, (a) every row of the table that contains each
\* supplied text filter in its column and that the aroma filter accepts is
\* returned, so an empty filter excludes nothing, and (b) every returned row
\* contains each supplied text filter value in the corresponding column as a
\* substring, whatever characters the value holds (% and _ included).
C1_SubstringFilters ==
    SearchDone =>
        /\ \A i \in DOMAIN table :
              ( /\ \A c \in TextColumns : form[c] # <<>> => Contains(table[i][c], form[c])
                /\ AromaAccepts(form.has_aroma, table[i].has_aroma) )
              => InFrame(table[i], df)
        /\ \A i \in DOMAIN df :
              \A c \in TextColumns : form[c] # <<>> => Contains(df[i][c], form[c])

\* The rows search_compounds returns for form f with the datastore working.
Result(f) == search_compounds(f, table, "ok").df

\* Row r passes the filters of f for some value of its has_aroma column.
PassesForSomeAroma(f, r) ==
    \E a \in AromaValues :
        search_compounds(f, <<[r EXCEPT !.has_aroma = a]>>, "ok").df # <<>>

\* C2: the aroma filter has three meanings: "with aroma" keeps exactly the
\* rows passing the text filters whose has_aroma is 1, "without aroma" exactly
\* those whose has_aroma is NULL or 0, and the empty choice returns a row
\* whatever its has_aroma is; no row is returned under both "with aroma" and
\* "without aroma", and no row with has_aroma 0 or NULL under "with aroma".
C2_AromaTriState ==
    SearchDone =>
        LET base == Result([form EXCEPT !.has_aroma = AROMA_ANY])
            yes == Result([form EXCEPT !.has_aroma = AROMA_YES])
            no == Result([form EXCEPT !.has_aroma = AROMA_NO])
        IN  /\ form.has_aroma = AROMA_YES =>
                  df = SelectSeq(base, LAMBDA r : r.has_aroma = <<1>>)
            /\ form.has_aroma = AROMA_NO =>
                  df = SelectSeq(base, LAMBDA r : r.has_aroma \in {<<>>, <<0>>})
            /\ form.has_aroma = AROMA_ANY =>
                  \A i \in DOMAIN table :
                      PassesForSomeAroma(form, table[i]) => InFrame(table[i], df)
            /\ \A i \in DOMAIN table : ~(InFrame(table[i], yes) /\ InFrame(table[i], no))
            /\ \A i \in DOMAIN yes : yes[i].has_aroma = <<1>>

\* A "without aroma" search that returned a row and left out a row with
\* has_aroma 1 that passes the text filters.
C2_Witness ==
    /\ SearchDone
    /\ form.has_aroma = AROMA_NO
    /\ df # <<>>
    /\ \E i \in DOMAIN table :
          /\ table[i].has_aroma = <<1>>
          /\ InFrame(table[i], Result([form EXCEPT !.has_aroma = AROMA_ANY]))
          /\ ~InFrame(table[i], df)

\* The fixed pieces of SQL text.
SqlTokens ==
    {SELECT_WHERE, SELECT_IN, PLACEHOLDER, ",", ")", LIKE_CAS, LIKE_CN,
     LIKE_CATEGORY, LIKE_EN, AROMA_IS_TRUE, AROMA_IS_FALSE}

\* Forms f and g supply the same filters (and the same aroma choice).
SamePresence(f, g) ==
    /\ \A c \in TextColumns : (f[c] = <<>>) <=> (g[c] = <<>>)
    /\ f.has_aroma = g.has_aroma

\* Other values a text filter can be given, SQL punctuation among them.
OtherValues == {<<>>, <<"a">>, <<"'", ";">>, <<"%">>}

\* The forms the text of a statement is compared over.
OtherForms ==
    [cas_number : OtherValues, compound_name_cn : OtherValues,
     category : OtherValues, compound_name_en : OtherValues,
     has_aroma : AromaChoices]

\* The identifiers a line of a file can hold.
Identifiers == {<<"6", "4">>, <<"a">>, <<"9">>, <<"A">>, <<"'", ")">>}

\* C3: every statement handed to the datastore consists of fixed SQL text
\* only, has as many ? placeholders as parameters, and carries the user's
\* values in the parameter list; any other values with the same filters
\* present (any other identifier list of the same length) give the same text.
C3_BoundParameters ==
    \A n \in DOMAIN issued :
        LET q == issued[n].query
            ps == issued[n].params
            supplied == SelectSeq(<<form.cas_number, form.compound_name_cn,
                                    form.category, form.compound_name_en>>,
                                  LAMBDA v : v # <<>>)
        IN  /\ CountPlaceholders(q) = Len(ps)
            /\ \A j \in DOMAIN q : q[j] \in SqlTokens
            /\ calls = <<"search_compounds">> =>
                  /\ ps = [j \in DOMAIN supplied |-> Wrap(supplied[j])]
                  /\ \A g \in OtherForms : SamePresence(form, g) => SearchQuery(g).query = q
            /\ calls = <<"batch_search_cas">> =>
                  /\ ps = cas_list
                  /\ \A l \in [1..Len(cas_list) -> Identifiers] : BatchQuery(l).query = q

\* A batch query for two different identifiers was issued.
C3_Witness ==
    /\ calls = <<"batch_search_cas">>
    /\ Len(issued) = 1
    /\ Len(cas_list) = 2
    /\ cas_list[1] # cas_list[2]

\* C4: after a batch query, the found identifiers together with the entries
\* of the missing list are exactly the identifiers of the input, no found
\* identifier is in the missing list, and an identifier is found exactly when
\* a stored identifier is equal to it character for character.
C4_BatchPartition ==
    BatchDone =>
        /\ found_cas \cup Range(missing) = Range(cas_list)
        /\ found_cas \cap Range(missing) = {}
        /\ found_cas = {c \in Range(cas_list) : Stored(c)}

\* A batch query found one identifier and missed another that is stored in
\* another case.
C4_Witness ==
    /\ BatchDone
    /\ found_cas # {}
    /\ <<"a">> \in Range(missing)
    /\ Stored(<<"A">>)

\* C5 as stated: the missing list is a subsequence of the trimmed input and
\* no identifier occurs in it more than once.
C5_MissingAtMostOnce ==
    BatchDone =>
        /\ IsSubsequence(missing, cas_list)
        /\ \A c \in Range(cas_list) : Count(c, missing) <= 1

\* C5 amended: the missing list is a subsequence of the trimmed input; a
\* stored identifier does not occur in it however often the input holds it,
\* and an identifier that is not stored occurs in it as often as in the input.
C5_MissingKeepsOrderAndMultiplicity ==
    BatchDone =>
        /\ IsSubsequence(missing, cas_list)
        /\ \A c \in Range(cas_list) :
              Count(c, missing) = IF Stored(c) THEN 0 ELSE Count(c, cas_list)

\* A batch input that holds the same absent identifier twice.
C5_Witness ==
    /\ BatchDone
    /\ \E c \in Range(cas_list) : ~Stored(c) /\ Count(c, cas_list) = 2

\* Every line of the file is empty after trimming.
BlankFile(file) ==
    /\ file # NoFile
    /\ \A i \in DOMAIN file : Strip(file[i], StrWhitespace) = <<>>

\* C6: when the uploaded file holds no identifier after trimming, the run
\* (one the clear button did not restart) calls no query function, opens no connection, issues no statement, leaves
\* the result empty and puts the "file is empty" warning on the page.
C6_EmptyBatch ==
    (pc # "ready" /\ ~do_clear /\ BlankFile(uploaded_file)) =>
        /\ calls = <<>>
        /\ issued = <<>>
        /\ opened = 0
        /\ df = <<>>
        /\ notices # <<>>
        /\ notices[1] = Notice("warning", FILE_EMPTY, <<>>)

\* A file of blank lines, one of them an ideographic space, was handled.
C6_Witness ==
    /\ pc = "dispatched"
    /\ ~do_clear
    /\ BlankFile(uploaded_file)
    /\ \E i \in DOMAIN uploaded_file : uploaded_file[i] = <<"U3000", "LF">>

\* C7: when the datastore fails during a run, the run completes normally, the
\* result is empty and an error notice is on the page.
C7_FailureBecomesNotice ==
    (pc # "ready" /\ db \in {"connect_fails", "query_fails"}) =>
        /\ run = "completed"
        /\ df = <<>>
        /\ \E i \in DOMAIN notices : notices[i].kind = "error"

\* C8: after a call of search_compounds or batch_search_cas, whether it
\* returned or raised, every connection it opened is closed.
C8_ConnectionReleased ==
    pc # "ready" => opened = closed

\* C9: the step that calls display_image never ends the run with an
\* exception, leaves df as it was, reports a missing file as an information
\* note and an unreadable file as an error note.
C9_DisplayImageNeverRaises ==
    [][ (pc = "table_shown" /\ pc' = "detail_shown") =>
            /\ run' = "completed"
            /\ df' = df
            /\ Len(notices') > Len(notices)
            /\ image' = "absent" =>
                  notices'[Len(notices) + 1] = Notice("info", IMAGE_MISSING, selected_cas)
            /\ image' = "unreadable" =>
                  notices'[Len(notices) + 1] = Notice("error", IMAGE_FAILED, selected_cas)
      ]_vars

\* display_image met an image file that cannot be opened.
C9_Witness ==
    /\ pc = "detail_shown"
    /\ image = "unreadable"
    /\ df # <<>>

\* C10: a run calls at most one query function and issues at most one
\* statement; with a file uploaded search_compounds is not called, even with
\* the search button pressed; search_compounds is called only with no file and
\* the button pressed; with neither, nothing is queried and df is empty.
C10_OneQueryBatchFirst ==
    /\ Len(calls) <= 1
    /\ Len(issued) <= 1
    /\ uploaded_file # NoFile => "search_compounds" \notin Range(calls)
    /\ "search_compounds" \in Range(calls) => (uploaded_file = NoFile /\ do_search)
    /\ (pc # "ready" /\ uploaded_file = NoFile /\ ~do_search) =>
          (calls = <<>> /\ issued = <<>> /\ df = <<>>)

\* A file was uploaded and the search button pressed: the batch query ran.
C10_Witness ==
    /\ uploaded_file # NoFile
    /\ do_search
    /\ calls = <<"batch_search_cas">>
    /\ Len(issued) = 1

====
